---- MODULE Spec2Model ----
(***************************************************************************)
(* Model of the book tracker's sync layer (src/app.js): the in-memory      *)
(* collection state.books, the localStorage cache, the gist holding        *)
(* books.tsv, the TSV codec, the collection mutations and the asynchronous *)
(* syncWithGitHub / pushToGitHub operations with their isSyncing guard.    *)
(*                                                                         *)
(* JavaScript strings are sequences of one-character strings, so that      *)
(* split, join, trim and the rating-tag pattern are computed as the code   *)
(* computes them.  null and undefined are the value Null.                  *)
(***************************************************************************)
EXTENDS Integers, Sequences, FiniteSets, TLC

\* ------------------------------------------------------------------ strings

TAB == "\t"
NL == "\n"
COMMA == ","
SPACE == " "

\* null / undefined (a falsy value that is not a string)
Null == <<"null">>

Digits == <<"0", "1", "2", "3", "4", "5", "6", "7", "8", "9">>

IsDigit(c) == \E k \in 1..10 : Digits[k] = c

DigitVal(c) == (CHOOSE k \in 1..10 : Digits[k] = c) - 1

IsSpace(c) == c \in {SPACE, TAB, NL}

\* JavaScript truthiness of a string-or-null value
Truthy(s) == s # Null /\ s # <<>>

RECURSIVE TrimLeft(_)
TrimLeft(s) == IF s # <<>> /\ IsSpace(Head(s)) THEN TrimLeft(Tail(s)) ELSE s

RECURSIVE TrimRight(_)
TrimRight(s) ==
    IF s # <<>> /\ IsSpace(s[Len(s)]) THEN TrimRight(SubSeq(s, 1, Len(s) - 1)) ELSE s

\* String.prototype.trim
Trim(s) == TrimRight(TrimLeft(s))

\* String.prototype.split(c): the pieces between the occurrences of c
RECURSIVE SplitFrom(_, _, _)
SplitFrom(s, c, cur) ==
    IF s = <<>> THEN <<cur>>
    ELSE IF Head(s) = c THEN <<cur>> \o SplitFrom(Tail(s), c, <<>>)
    ELSE SplitFrom(Tail(s), c, Append(cur, Head(s)))

Split(s, c) == SplitFrom(s, c, <<>>)

\* what join prints for one element: null and undefined print as the empty string
Str(x) == IF x = Null THEN <<>> ELSE x

\* Array.prototype.join(c)
RECURSIVE Join(_, _)
Join(parts, c) ==
    IF parts = <<>> THEN <<>>
    ELSE IF Len(parts) = 1 THEN Str(parts[1])
    ELSE Str(parts[1]) \o <<c>> \o Join(Tail(parts), c)

Includes(s, x) == \E k \in 1..Len(s) : s[k] = x

Range(s) == {s[k] : k \in 1..Len(s)}

\* Number.prototype.toString for a natural number
RECURSIVE Dec(_)
Dec(n) == IF n < 10 THEN <<Digits[n + 1]>> ELSE Dec(n \div 10) \o <<Digits[(n % 10) + 1]>>

\* mutant: no padding
PadStartNone(s) == s

\* String.prototype.padStart(2, '0')
PadStart2(s) == IF Len(s) >= 2 THEN s ELSE IF Len(s) = 1 THEN <<"0">> \o s ELSE <<"0", "0">>

\* ------------------------------------------------------------------ reserved tags

ToRead == <<"t", "o", "_", "r", "e", "a", "d">>
Reading == <<"r", "e", "a", "d", "i", "n", "g">>
Read == <<"r", "e", "a", "d">>
StarsSuffix == <<"_", "s", "t", "a", "r", "s">>

ListTags == {ToRead, Reading, Read}

\* tag.match(/^\d{2}_stars$/)
IsRatingTag(tag) ==
    /\ Len(tag) = 8
    /\ IsDigit(tag[1])
    /\ IsDigit(tag[2])
    /\ SubSeq(tag, 3, 8) = StarsSuffix

NotRatingTag(tag) == ~IsRatingTag(tag)

\* getRatingFromTags: the rating of the first rating tag, 0 standing for null
getRatingFromTags(tags) ==
    IF tags = Null THEN 0
    ELSE IF \E k \in 1..Len(tags) : IsRatingTag(tags[k])
    THEN LET k == CHOOSE j \in 1..Len(tags) :
                      IsRatingTag(tags[j]) /\ \A i \in 1..(j - 1) : ~IsRatingTag(tags[i])
         IN  DigitVal(tags[k][1]) * 10 + DigitVal(tags[k][2])
    ELSE 0

\* mutant: setRatingTag without its filter
setRatingTagKeepOld(tags, rating) ==
    IF rating # 0 /\ rating >= 1 /\ rating <= 10
    THEN Append(tags, PadStart2(Dec(rating)) \o StarsSuffix)
    ELSE tags

\* setRatingTag: rating 0 stands for null (and for 0, equally falsy)
setRatingTag(tags, rating) ==
    LET tagsWithoutRating == SelectSeq(tags, NotRatingTag)
    IN  IF rating # 0 /\ rating >= 1 /\ rating <= 10
        THEN Append(tagsWithoutRating, PadStart2(Dec(rating)) \o StarsSuffix)
        ELSE tagsWithoutRating

\* ------------------------------------------------------------------ bounds and inputs

\* most records the user adds to the collection
MaxBooks == 2
\* fiveMinutes of the focus handler, in minutes
FiveMinutes == 5
\* most mutations of the collection in one behaviour
MaxMutations == 2

IsbnA == <<"9", "7">>

\* The MetadataProvider's catalogue: search results and ISBN lookups draw from it.
\* title stands for the display metadata (title, author, year, cover, description).
Volumes ==
    { [id |-> "v1", isbn |-> IsbnA, title |-> "t1"],
      [id |-> "v2", isbn |-> IsbnA, title |-> "t2"],
      [id |-> "v3", isbn |-> Null, title |-> "t3"] }

Ids == {v.id : v \in Volumes}

\* what the user types into the tag input (after trim, never empty)
FreeTags == {<<"x">>}

\* the list buttons pressed on a search result, and on a book of the collection
AddTags == {ToRead}
StatusTags == {Read}

\* the ratings the star widget and its callers pass (0 stands for null)
Ratings == {7}

\* the gist the RemoteStore can hold, and what the user types into the settings
RemoteGistId == <<"g">>
GistIdInputs == {<<>>, <<SPACE, "g">>}
TokenInputs == {<<"k", SPACE>>}

\* ------------------------------------------------------------------ the TSV codec

Header == <<"i", "s", "b", "n", TAB, "t", "a", "g", "s", TAB,
            "a", "d", "d", "e", "d", "A", "t">>

\* mutant: booksToTSV without its ISBN test
HasIsbnAlways(book) == TRUE

\* booksToTSV line 890: if (book.isbn)
HasIsbn(book) == Truthy(book.isbn)

\* mutant: the row with its last two columns swapped
TSVRowTagsLast(book) ==
    LET tags == IF book.tags # Null /\ Len(book.tags) > 0 THEN Join(book.tags, COMMA) ELSE <<>>
    IN  Join(<<book.isbn, IF Truthy(book.addedAt) THEN book.addedAt ELSE <<>>, tags>>, TAB)

\* the row booksToTSV pushes for one book
TSVRow(book) ==
    LET tags == IF book.tags # Null /\ Len(book.tags) > 0 THEN Join(book.tags, COMMA) ELSE <<>>
    IN  Join(<<book.isbn, tags, IF Truthy(book.addedAt) THEN book.addedAt ELSE <<>>>>, TAB)

RECURSIVE TSVRows(_)
TSVRows(bs) == IF bs = <<>> THEN <<>> ELSE <<TSVRow(Head(bs))>> \o TSVRows(Tail(bs))

\* booksToTSV, of the collection bs
booksToTSV(bs) == Join(<<Header>> \o TSVRows(SelectSeq(bs, HasIsbn)), NL)

TrimTruthy(t) == Truthy(Trim(t))

\* tsvToBooks, lines 916-920: one line to its columns, then to (isbn, tags, addedAt)
ParseLine(line) ==
    LET cols == Split(line, TAB)
    IN  [isbn |-> cols[1],
         tags |-> IF Truthy(cols[2]) THEN SelectSeq(Split(cols[2], COMMA), TrimTruthy) ELSE <<>>,
         addedAt |-> IF Len(cols) >= 3 /\ Truthy(cols[3]) THEN cols[3] ELSE Null]

WellFormedLine(line) == Len(Split(line, TAB)) >= 2

RECURSIVE ParseLines(_)
ParseLines(lines) ==
    IF lines = <<>> THEN <<>> ELSE <<ParseLine(Head(lines))>> \o ParseLines(Tail(lines))

\* tsvToBooks, lines 907-920: the rows of a wire text, header and short lines dropped
ParseRows(tsv) ==
    LET lines == Split(Trim(tsv), NL)
    IN  ParseLines(SelectSeq(Tail(lines), WellFormedLine))

\* ------------------------------------------------------------------ state

VARIABLES
    books,         \* state.books: the in-memory collection, a sequence of records
    cache,         \* localStorage bookTrackerData: [present, data]
    settings,      \* state.settings, also what localStorage bookTrackerSettings holds
    isSyncing,     \* state.isSyncing
    lastSyncTime,  \* state.lastSyncTime, 0 standing for null
    lastPull,      \* history only: when this page last finished a pull, 0 for never
    syncStatus,    \* the kind of message the sync status line shows
    remote,        \* the gist: [exists, hasFile, content]
    ops,           \* the RemoteStore operations in flight, oldest first
    now,           \* Date.now(), in minutes
    muts,          \* bound: the mutations the behaviour may still make
    unsynced,      \* history: a mutation's push trigger was dropped and nothing sent since
    ev             \* history: the last step taken, the operation it ended, books before it

vars ==
    <<books, cache, settings, isSyncing, lastSyncTime, lastPull, syncStatus, remote, ops, now,
      muts, unsynced, ev>>

NoOp ==
    [kind |-> "none", manual |-> FALSE, gistId |-> <<>>, body |-> <<>>, tsv |-> <<>>,
     acc |-> <<>>, pending |-> <<>>,
     \* history: a mutation was made while the operation was in flight; the collection
     \* was empty when tsvToBooks ran; a lookup returned no item
     mutated |-> FALSE, startEmpty |-> FALSE, failed |-> FALSE,
     \* history: the sync was asked for right after clearLocalCache
     afterClear |-> FALSE,
     \* history: the rows whose lookup returned no item or failed
     lost |-> 0]

\* createGist(token): the request carries booksToTSV() of the collection at the call
CreateOp(manual, bs) == [NoOp EXCEPT !.kind = "create", !.manual = manual, !.body = booksToTSV(bs)]

\* fetchGist(gistId, token)
FetchOp(manual, gistId) == [NoOp EXCEPT !.kind = "fetch", !.manual = manual, !.gistId = gistId]

\* mutant: the request carries the collection as it was before the mutation
UpdateOpStale(gistId, bs) ==
    [NoOp EXCEPT !.kind = "update", !.gistId = gistId, !.body = booksToTSV(books)]

\* updateGist(gistId, token): the request carries booksToTSV() of the collection at the call
UpdateOp(gistId, bs) == [NoOp EXCEPT !.kind = "update", !.gistId = gistId, !.body = booksToTSV(bs)]

\* name: the step; arg: the id it was called with; op: the operation it ended; pre: the
\* collection before a pull, the target record before a collection operation; dropped: its push trigger was turned away by the guard;
\* stale: unsynced before it
Event(name, arg, op, pre, dropped, stale) ==
    [name |-> name, arg |-> arg, op |-> op, pre |-> pre, dropped |-> dropped, stale |-> stale,
     \* the tag or the rating (in digits) a collection operation was called with
     val |-> <<>>]

\* a step no property needs to tell from the others
Quiet == Event("other", "", NoOp, <<>>, FALSE, FALSE)

RemoveAt(s, i) == SubSeq(s, 1, i - 1) \o SubSeq(s, i + 1, Len(s))

\* new Date().toISOString(): the clock rendered in digits
ToISOString(t) == Dec(t)

\* mutant: the entry is written empty
SavedEmpty(bs) == [present |-> TRUE, data |-> <<>>]

\* localStorage.setItem('bookTrackerData', JSON.stringify(state.books))
Saved(bs) == [present |-> TRUE, data |-> bs]

\* mutant: the guard is released only when the operation succeeded
FinallyOnSuccess(ok) == ~ok

\* the finally blocks of syncWithGitHub and pushToGitHub: state.isSyncing = false,
\* whether the operation succeeded (ok) or threw
Finally(ok) == FALSE

\* mutant: the guard is already released when the pull saves
HeldAtSaveReleased(syncing) == FALSE

\* state.isSyncing as saveToLocalStorage() at the end of a pull finds it: the finally
\* block of syncWithGitHub has not run yet
HeldAtSave(syncing) == syncing

\* state.books.some(b => b.id === id)
HasId(bs, id) == \E k \in 1..Len(bs) : bs[k].id = id

\* state.books.find(b => b.id === id): the index of the first match
FindById(bs, id) == CHOOSE k \in 1..Len(bs) : bs[k].id = id /\ \A j \in 1..(k - 1) : bs[j].id # id

HasIsbnOf(bs, isbn) == \E k \in 1..Len(bs) : bs[k].isbn = isbn

\* state.books.find(b => b.isbn === isbn): the first match
FindByIsbn(bs, isbn) ==
    bs[CHOOSE k \in 1..Len(bs) : bs[k].isbn = isbn /\ \A j \in 1..(k - 1) : bs[j].isbn # isbn]

\* ------------------------------------------------------------------ the single-flight guard

\* mutant: syncWithGitHub without its guard
SyncGuardOff(syncing) == FALSE

\* syncWithGitHub line 1081: if (state.isSyncing) return
SyncGuard(syncing) == syncing

\* mutant: pushToGitHub without its guard
PushGuardOff(syncing) == FALSE

\* pushToGitHub line 1147: if (state.isSyncing) return
PushGuard(syncing) == syncing

\* mutant: a push without remote identifier creates the document
pushToGitHubCreates(bs, syncing, curOps) ==
    LET token == Trim(settings.apiToken)
        gistId == Trim(settings.gistId)
    IN  IF ~Truthy(token)
        THEN [isSyncing |-> syncing, ops |-> curOps, dropped |-> FALSE]
        ELSE IF PushGuard(syncing)
        THEN [isSyncing |-> syncing, ops |-> curOps, dropped |-> TRUE]
        ELSE [isSyncing |-> TRUE,
              ops |-> Append(curOps, IF ~Truthy(gistId) THEN CreateOp(FALSE, bs)
                                     ELSE UpdateOp(gistId, bs)),
              dropped |-> FALSE]

\* pushToGitHub up to its await, for the collection bs: what isSyncing and ops become
pushToGitHub(bs, syncing, curOps) ==
    LET token == Trim(settings.apiToken)
        gistId == Trim(settings.gistId)
    IN  IF ~Truthy(token) \/ ~Truthy(gistId)
        THEN [isSyncing |-> syncing, ops |-> curOps, dropped |-> FALSE]
        ELSE IF PushGuard(syncing)
        THEN [isSyncing |-> syncing, ops |-> curOps, dropped |-> TRUE]
        ELSE [isSyncing |-> TRUE, ops |-> Append(curOps, UpdateOp(gistId, bs)), dropped |-> FALSE]

\* syncWithGitHub(manualSync) up to its first await
syncWithGitHub(manual, bs, syncing, curOps, status) ==
    LET token == Trim(settings.apiToken)
        gistId == Trim(settings.gistId)
    IN  IF SyncGuard(syncing)
        THEN [isSyncing |-> syncing, ops |-> curOps, syncStatus |-> status]
        ELSE IF ~Truthy(token)
        THEN [isSyncing |-> syncing, ops |-> curOps,
              syncStatus |-> IF manual THEN "error" ELSE status]
        ELSE [isSyncing |-> TRUE,
              ops |-> Append(curOps, IF ~Truthy(gistId) THEN CreateOp(manual, bs)
                                     ELSE FetchOp(manual, gistId)),
              syncStatus |-> IF manual THEN "info" ELSE status]

IsPull(op) == op.kind \in {"fetch", "lookups"}

IsWrite(op) == op.kind \in {"create", "update"}

\* history only: a mutation made while an operation is in flight is noted on it
MarkMutated(curOps) == [k \in 1..Len(curOps) |-> [curOps[k] EXCEPT !.mutated = TRUE]]

\* history only: the record of that id as it is before the operation
Target(id) == IF HasId(books, id) THEN <<books[FindById(books, id)]>> ELSE <<>>

\* saveToLocalStorage() after a mutation, called with id, that left the collection as bs
SaveAndPush(name, id, val, bs) ==
    LET p == pushToGitHub(bs, isSyncing, MarkMutated(ops))
    IN  /\ muts > 0
        /\ muts' = muts - 1
        /\ books' = bs
        /\ cache' = Saved(bs)
        /\ isSyncing' = p.isSyncing
        /\ ops' = p.ops
        /\ unsynced' = IF p.dropped THEN TRUE
                       ELSE IF Len(p.ops) > Len(ops) THEN FALSE ELSE unsynced
        /\ ev' = [Event(name, id, NoOp, Target(id), p.dropped, unsynced) EXCEPT !.val = val]
        /\ UNCHANGED <<settings, lastSyncTime, lastPull, syncStatus, remote, now>>

\* ------------------------------------------------------------------ collection operations

IsListTag(t) == t \in ListTags

\* mutant: the filter of changeBookListStatus misses 'read'
NotListTagButRead(t) == t \notin {ToRead, Reading}

\* changeBookListStatus line 432: !['to_read', 'reading', 'read'].includes(t)
NotListTag(t) == ~IsListTag(t)

\* the record addBookToList pushes for a search result (tags: [] from displaySearchResults)
NewBook(vol, listTag) ==
    [id |-> vol.id, isbn |-> vol.isbn, title |-> vol.title,
     tags |-> <<listTag>>, addedAt |-> ToISOString(now)]

\* addBookToList(book, listTag)
AddBook(vol, listTag) ==
    IF HasId(books, vol.id)
    THEN /\ ev' = Event("addBookDuplicate", vol.id, NoOp, <<>>, FALSE, unsynced)
         /\ UNCHANGED <<books, cache, settings, isSyncing, lastSyncTime, lastPull, syncStatus, remote,
                        ops, now, muts, unsynced>>
    ELSE /\ Len(books) < MaxBooks
         /\ SaveAndPush("addBook", vol.id, listTag, Append(books, NewBook(vol, listTag)))

\* mutant: removeBook without saveToLocalStorage()
RemoveBookUnsaved(bookId) ==
    LET Keep(b) == b.id # bookId
    IN  /\ muts > 0
        /\ muts' = muts - 1
        /\ books' = SelectSeq(books, Keep)
        /\ ev' = Event("removeBook", bookId, NoOp, Target(bookId), FALSE, unsynced)
        /\ UNCHANGED <<cache, settings, isSyncing, lastSyncTime, lastPull, syncStatus, remote,
                       ops, now, unsynced>>

\* removeBook(bookId)
RemoveBook(bookId) ==
    LET Keep(b) == b.id # bookId
    IN  SaveAndPush("removeBook", bookId, <<>>, SelectSeq(books, Keep))

Untouched(name) ==
    /\ ev' = Quiet
    /\ UNCHANGED <<books, cache, settings, isSyncing, lastSyncTime, lastPull, syncStatus, remote, ops,
                   now, muts, unsynced>>

\* mutant: the operation saves and pushes although it found no record
NotFoundSaves(name, id) == SaveAndPush(name, id, <<>>, books)

\* if (book) is false: the operation called with id returns without doing anything
NotFound(name, id) ==
    /\ ev' = Event(name, id, NoOp, <<>>, FALSE, FALSE)
    /\ UNCHANGED <<books, cache, settings, isSyncing, lastSyncTime, lastPull, syncStatus, remote, ops,
                   now, muts, unsynced>>

\* changeBookListStatus(bookId, newListTag)
ChangeStatus(bookId, newListTag) ==
    IF HasId(books, bookId)
    THEN LET k == FindById(books, bookId)
             tags == Append(SelectSeq(books[k].tags, NotListTag), newListTag)
         IN  SaveAndPush("changeStatus", bookId, newListTag,
                 [books EXCEPT ![k].tags = tags, ![k].addedAt = ToISOString(now)])
    ELSE NotFound("changeStatusMissing", bookId)

\* updateBookRating(bookId, rating)
UpdateRating(bookId, rating) ==
    IF HasId(books, bookId)
    THEN LET k == FindById(books, bookId)
         IN  SaveAndPush("updateRating", bookId, Dec(rating),
                 [books EXCEPT ![k].tags = setRatingTag(books[k].tags, rating)])
    ELSE NotFound("updateRatingMissing", bookId)

\* mutant: addTagToBook also sets addedAt
AddTagStamped(bookId, tag) ==
    IF HasId(books, bookId) /\ ~Includes(books[FindById(books, bookId)].tags, tag)
    THEN LET k == FindById(books, bookId)
         IN  SaveAndPush("addTag", bookId, tag,
                 [books EXCEPT ![k].tags = Append(books[k].tags, tag),
                               ![k].addedAt = ToISOString(now)])
    ELSE Untouched("addTagNoChange")

\* addTagToBook(bookId, tag)
AddTag(bookId, tag) ==
    IF HasId(books, bookId) /\ ~Includes(books[FindById(books, bookId)].tags, tag)
    THEN LET k == FindById(books, bookId)
         IN  SaveAndPush("addTag", bookId, tag,
                 [books EXCEPT ![k].tags = Append(books[k].tags, tag)])
    ELSE Untouched("addTagNoChange")

\* removeTagFromBook(bookId, tag)
RemoveTag(bookId, tag) ==
    IF HasId(books, bookId)
    THEN LET k == FindById(books, bookId)
             Other(t) == t # tag
         IN  SaveAndPush("removeTag", bookId, tag,
                 [books EXCEPT ![k].tags = SelectSeq(books[k].tags, Other)])
    ELSE Untouched("removeTagMissing")

\* the steps that change the collection through a mutation
IsMutation(name) ==
    name \in {"addBook", "removeBook", "changeStatus", "updateRating", "addTag", "removeTag"}

\* ------------------------------------------------------------------ sync triggers

ApplySync(manual, bs) ==
    LET r == syncWithGitHub(manual, bs, isSyncing, ops, syncStatus)
    IN  /\ isSyncing' = r.isSyncing
        /\ ops' = [k \in 1..Len(r.ops) |->
                       IF k > Len(ops) THEN [r.ops[k] EXCEPT !.afterClear = (ev.name = "clearCache")]
                       ELSE r.ops[k]]
        /\ syncStatus' = r.syncStatus
        /\ unsynced' = IF \E k \in 1..Len(r.ops) : k > Len(ops) /\ IsWrite(r.ops[k])
                       THEN FALSE ELSE unsynced
        /\ ev' = Quiet

\* the Sync Now button: syncWithGitHub(true)
ManualSync ==
    /\ ApplySync(TRUE, books)
    /\ UNCHANGED <<books, cache, settings, lastSyncTime, lastPull, remote, now, muts>>

\* mutant: the focus handler without its threshold
StaleAlways(last, t) == TRUE

\* focus handler line 159: !state.lastSyncTime || (now - state.lastSyncTime) > fiveMinutes
Stale(last, t) == last = 0 \/ t - last > FiveMinutes

\* the window focus handler
Focus ==
    /\ IF /\ Truthy(settings.apiToken)
          /\ Truthy(settings.gistId)
          /\ Stale(lastSyncTime, now)
       THEN ApplySync(FALSE, books)
       ELSE /\ ev' = Quiet
            /\ UNCHANGED <<isSyncing, ops, syncStatus, unsynced>>
    /\ UNCHANGED <<books, cache, settings, lastSyncTime, lastPull, remote, now, muts>>

\* saveSettings()
SaveSettings(gistIdInput, tokenInput) ==
    /\ settings' = [gistId |-> Trim(gistIdInput), apiToken |-> Trim(tokenInput)]
    /\ syncStatus' = "success"
    /\ ev' = Quiet
    /\ UNCHANGED <<books, cache, isSyncing, lastSyncTime, lastPull, remote, ops, now, muts, unsynced>>

\* mutant: the cache entry is removed and the collection kept
ClearLocalCacheKeepsBooks ==
    /\ cache' = [present |-> FALSE, data |-> <<>>]
    /\ unsynced' = FALSE
    /\ ev' = Event("clearCache", "", NoOp, books, FALSE, FALSE)
    /\ UNCHANGED <<books, settings, isSyncing, lastSyncTime, lastPull, syncStatus, remote, ops, now, muts>>

\* clearLocalCache(), confirmed
ClearLocalCache ==
    /\ cache' = [present |-> FALSE, data |-> <<>>]
    /\ books' = <<>>
    /\ unsynced' = FALSE
    /\ ev' = Event("clearCache", "", NoOp, books, FALSE, FALSE)
    /\ UNCHANGED <<settings, isSyncing, lastSyncTime, lastPull, syncStatus, remote, ops, now, muts>>

\* ------------------------------------------------------------------ RemoteStore responses

Document(text) == [exists |-> TRUE, hasFile |-> TRUE, content |-> text]

\* mutant: the document is left as it was
PatchKeepsOld(old, body) == old

\* updateGist lines 1044-1058: PATCH with files['books.tsv'].content = body
Patch(old, body) == Document(body)

\* mutant: the last-sync time is set although the sync failed
SyncFailedStamps(name, i) ==
    /\ syncStatus' = "error"
    /\ isSyncing' = FALSE
    /\ ops' = RemoveAt(ops, i)
    /\ lastSyncTime' = now
    /\ ev' = Event(name, "", ops[i], <<>>, FALSE, unsynced)
    /\ UNCHANGED <<books, cache, settings, lastPull, remote, now, muts, unsynced>>

\* mutant: the catch block sends the request again
SyncFailedRetry(name, i) ==
    /\ syncStatus' = "error"
    /\ ops' = ops
    /\ ev' = Event(name, "", ops[i], <<>>, FALSE, unsynced)
    /\ UNCHANGED <<books, cache, settings, isSyncing, lastSyncTime, lastPull, remote, now, muts, unsynced>>

\* the catch and finally blocks of syncWithGitHub
SyncFailed(name, i) ==
    /\ syncStatus' = "error"
    /\ isSyncing' = Finally(FALSE)
    /\ ops' = RemoveAt(ops, i)
    /\ ev' = Event(name, "", ops[i], <<>>, FALSE, unsynced)
    /\ UNCHANGED <<books, cache, settings, lastSyncTime, lastPull, remote, now, muts, unsynced>>

\* syncWithGitHub lines 1099-1103, 1128, 1137: the create request is answered
CreateResponse(i, ok) ==
    /\ ops[i].kind = "create"
    /\ IF ok
       THEN /\ ~remote.exists
            /\ remote' = Document(ops[i].body)
            /\ settings' = [settings EXCEPT !.gistId = RemoteGistId]
            /\ syncStatus' = "success"
            /\ lastSyncTime' = now
            /\ isSyncing' = Finally(TRUE)
            /\ ops' = RemoveAt(ops, i)
            /\ ev' = Event("createDone", "", ops[i], <<>>, FALSE, unsynced)
            /\ UNCHANGED <<lastPull, books, cache, now, muts, unsynced>>
       ELSE SyncFailed("createFailed", i)

\* mutant: the cached book wins over the row
FromCacheKeepLocal(bs, row) == FindByIsbn(bs, row.isbn)

\* tsvToBooks lines 922-932: the record built from a row and the cached book
FromCache(bs, row) == [FindByIsbn(bs, row.isbn) EXCEPT !.tags = row.tags, !.addedAt = row.addedAt]

\* mutant: the looked-up record loses the row's tags
FromLookupNoTags(vol, row) ==
    [id |-> vol.id, isbn |-> row.isbn, title |-> vol.title, tags |-> <<>>, addedAt |-> row.addedAt]

\* tsvToBooks lines 943-953: the record built from a row and the looked-up volume
FromLookup(vol, row) ==
    [id |-> vol.id, isbn |-> row.isbn, title |-> vol.title,
     tags |-> row.tags, addedAt |-> row.addedAt]

\* tsvToBooks lines 915-963: the rows answered from the collection bs, in row order
RECURSIVE CacheHits(_, _)
CacheHits(bs, rows) ==
    IF rows = <<>> THEN <<>>
    ELSE IF HasIsbnOf(bs, Head(rows).isbn)
    THEN <<FromCache(bs, Head(rows))>> \o CacheHits(bs, Tail(rows))
    ELSE CacheHits(bs, Tail(rows))

\* mutant: every row is looked up, cached or not
CacheMissesAll(bs, rows) == rows

\* tsvToBooks lines 933-962: the rows that need a lookup
CacheMisses(bs, rows) ==
    LET Miss(row) == ~HasIsbnOf(bs, row.isbn)
    IN  SelectSeq(rows, Miss)

\* mutant: the local collection wins whenever it holds anything
ReplaceLocalFirst(old, remoteBooks) == IF old # <<>> THEN old ELSE remoteBooks

\* mutant: a merge that keeps the local records the remote does not hold
ReplaceKeepLocal(old, remoteBooks) ==
    LET LocalOnly(b) == ~HasIsbnOf(remoteBooks, b.isbn)
    IN  remoteBooks \o SelectSeq(old, LocalOnly)

\* syncWithGitHub line 1113: the collection after the pull, from what was in memory
\* and what tsvToBooks returned
Replace(old, remoteBooks) == remoteBooks

\* syncWithGitHub lines 1113-1128 and 1137: tsvToBooks has returned remoteBooks
FinishPull(i, op, remoteBooks) ==
    LET bs == Replace(books, remoteBooks)
        p == pushToGitHub(bs, HeldAtSave(isSyncing), RemoveAt(ops, i))
    IN  /\ books' = bs
        /\ cache' = Saved(bs)
        /\ syncStatus' = IF op.manual THEN "success" ELSE syncStatus
        /\ lastSyncTime' = now
        /\ lastPull' = now
        /\ isSyncing' = Finally(TRUE)
        /\ ops' = p.ops
        /\ unsynced' = FALSE
        /\ ev' = Event("pullDone", "", op, books, p.dropped, unsynced)
        /\ UNCHANGED <<settings, remote, now, muts>>

\* mutant: tsvToBooks returns as soon as one lookup has settled
AnySettled(pending) == TRUE

\* tsvToBooks line 966: await Promise.all(fetchPromises) resumes when none is pending
AllSettled(pending) == pending = <<>>

\* mutant: a gist without books.tsv is read as an empty collection
WithoutFileEmpty(bs) == <<>>

\* syncWithGitHub lines 1108-1121: without books.tsv the collection is left as it is
WithoutFile(bs) == bs

\* syncWithGitHub lines 1106-1110: the fetch request is answered
FetchResponse(i, ok) ==
    /\ ops[i].kind = "fetch"
    /\ IF ok
       THEN /\ remote.exists
            /\ ops[i].gistId = RemoteGistId
            /\ IF remote.hasFile
               THEN LET rows == ParseRows(remote.content)
                        op == [ops[i] EXCEPT !.kind = "lookups",
                                             !.tsv = remote.content,
                                             !.startEmpty = (books = <<>>),
                                             !.acc = CacheHits(books, rows),
                                             !.pending = CacheMisses(books, rows)]
                    IN  IF AllSettled(op.pending)
                        THEN FinishPull(i, op, op.acc)
                        ELSE /\ ops' = [ops EXCEPT ![i] = op]
                             /\ ev' = Quiet
                             /\ UNCHANGED <<books, cache, settings, isSyncing, lastSyncTime, lastPull,
                                            syncStatus, remote, now, muts, unsynced>>
               ELSE /\ syncStatus' = IF ops[i].manual THEN "success" ELSE syncStatus
                    /\ lastSyncTime' = now
                    /\ lastPull' = now
                    /\ isSyncing' = Finally(TRUE)
                    /\ ops' = RemoveAt(ops, i)
                    /\ books' = WithoutFile(books)
                    /\ ev' = Event("pullNoFile", "", ops[i], <<>>, FALSE, unsynced)
                    /\ UNCHANGED <<cache, settings, remote, now, muts, unsynced>>
       ELSE SyncFailed("fetchFailed", i)

\* what a lookup by ISBN can settle to: a volume of the catalogue, no item, an error
NoVolume == [id |-> "", isbn |-> Null, title |-> ""]

LookupOutcomes(isbn) ==
    {[kind |-> "item", vol |-> v] : v \in {w \in Volumes : w.isbn = isbn}}
        \cup {[kind |-> k, vol |-> NoVolume] : k \in {"empty", "error"}}

\* mutant: a lookup that fails takes the rows resolved so far with it
ResolvedOrNone(acc, outcome, row) ==
    IF outcome.kind = "item" THEN Append(acc, FromLookup(outcome.vol, row)) ELSE <<>>

\* tsvToBooks lines 936-962: remoteBooks after the lookup of a row settled; a missing item
\* is only logged and an error is caught for that row alone
Resolved(acc, outcome, row) ==
    IF outcome.kind = "item" THEN Append(acc, FromLookup(outcome.vol, row)) ELSE acc

\* tsvToBooks lines 936-966: the lookup of pending row j settles
LookupSettle(i, j, outcome) ==
    /\ ops[i].kind = "lookups"
    /\ j \in 1..Len(ops[i].pending)
    /\ outcome \in LookupOutcomes(ops[i].pending[j].isbn)
    /\ LET row == ops[i].pending[j]
           acc == Resolved(ops[i].acc, outcome, row)
           op == [ops[i] EXCEPT !.acc = acc, !.pending = RemoveAt(ops[i].pending, j),
                                !.failed = (ops[i].failed \/ outcome.kind # "item"),
                                !.lost = IF outcome.kind # "item" THEN @ + 1 ELSE @]
       IN  IF AllSettled(op.pending)
           THEN FinishPull(i, op, acc)
           ELSE /\ ops' = [ops EXCEPT ![i] = op]
                /\ ev' = Quiet
                /\ UNCHANGED <<books, cache, settings, isSyncing, lastSyncTime, lastPull, syncStatus,
                               remote, now, muts, unsynced>>

\* mutant: a failed push shows the error to the user
PushErrorShown(status) == "error"

\* pushToGitHub lines 1152-1154: the catch block only calls console.error
PushErrorStatus(status) == status

\* pushToGitHub lines 1152-1157: the update request is answered
UpdateResponse(i, ok) ==
    /\ ops[i].kind = "update"
    /\ IF ok
       THEN /\ remote.exists
            /\ ops[i].gistId = RemoteGistId
            /\ remote' = Patch(remote, ops[i].body)
       ELSE UNCHANGED remote
    /\ syncStatus' = IF ok THEN syncStatus ELSE PushErrorStatus(syncStatus)
    /\ isSyncing' = Finally(ok)
    /\ ops' = RemoveAt(ops, i)
    /\ ev' = Event(IF ok THEN "pushDone" ELSE "pushFailed", "", ops[i], <<>>, FALSE, unsynced)
    /\ UNCHANGED <<books, cache, settings, lastSyncTime, lastPull, now, muts, unsynced>>

\* ------------------------------------------------------------------ startup

\* loadFromLocalStorage(): the collection a page load starts with
LoadFromLocalStorage == IF cache.present THEN cache.data ELSE <<>>

\* The page is (re)loaded and init() runs.  The requests of the page that is gone are
\* never answered to it; a write among them may or may not have reached the store.
Startup(lands) ==
    LET writes == {k \in 1..Len(ops) : ops[k].kind \in {"create", "update"}}
        landing == {k \in writes :
                       /\ lands
                       /\ IF ops[k].kind = "create" THEN ~remote.exists
                          ELSE remote.exists /\ ops[k].gistId = RemoteGistId}
        configured == Truthy(settings.apiToken) /\ Truthy(settings.gistId)
        r == syncWithGitHub(FALSE, LoadFromLocalStorage, FALSE, <<>>, "none")
    IN  /\ remote' = IF landing = {} THEN remote
                     ELSE Document(ops[CHOOSE k \in landing : TRUE].body)
        /\ books' = LoadFromLocalStorage
        /\ lastSyncTime' = 0
        /\ lastPull' = 0
        /\ isSyncing' = IF configured THEN r.isSyncing ELSE FALSE
        /\ ops' = IF configured THEN r.ops ELSE <<>>
        /\ syncStatus' = IF configured THEN r.syncStatus ELSE "none"
        /\ ev' = Quiet
        /\ UNCHANGED <<cache, settings, now, muts, unsynced>>

\* ------------------------------------------------------------------ specification

\* a document another installation of the program left in the gist
SeedBook ==
    [id |-> "v1", isbn |-> IsbnA, title |-> "t1", tags |-> <<ToRead>>, addedAt |-> ToISOString(0)]

InitRemotes ==
    { [exists |-> FALSE, hasFile |-> FALSE, content |-> <<>>],
      [exists |-> TRUE, hasFile |-> FALSE, content |-> <<>>],
      Document(booksToTSV(<<SeedBook>>)) }

Init ==
    /\ books = <<>>
    /\ cache = [present |-> FALSE, data |-> <<>>]
    /\ settings = [gistId |-> <<>>, apiToken |-> <<>>]
    /\ isSyncing = FALSE
    /\ lastSyncTime = 0
    /\ lastPull = 0
    /\ syncStatus = "none"
    /\ remote \in InitRemotes
    /\ ops = <<>>
    /\ now = 1
    /\ muts = MaxMutations
    /\ unsynced = FALSE
    /\ ev = Quiet

\* the ids of the book cards on screen: the list buttons and the stars are drawn there
OnScreen == {books[k].id : k \in 1..Len(books)}

Next ==
    \/ \E vol \in Volumes, listTag \in AddTags : AddBook(vol, listTag)
    \/ \E id \in Ids : RemoveBook(id)
    \/ \E id \in OnScreen, listTag \in StatusTags : ChangeStatus(id, listTag)
    \/ \E id \in OnScreen, rating \in Ratings : UpdateRating(id, rating)
    \/ \E id \in Ids, tag \in FreeTags : AddTag(id, tag)
    \/ \E id \in Ids, tag \in FreeTags : RemoveTag(id, tag)
    \/ ManualSync
    \/ Focus
    \/ \E g \in GistIdInputs, t \in TokenInputs : SaveSettings(g, t)
    \/ ClearLocalCache
    \/ \E lands \in BOOLEAN : Startup(lands)
    \/ \E i \in 1..Len(ops), ok \in BOOLEAN : CreateResponse(i, ok)
    \/ \E i \in 1..Len(ops), ok \in BOOLEAN : FetchResponse(i, ok)
    \/ \E i \in 1..Len(ops), j \in 1..MaxBooks, o \in LookupOutcomes(IsbnA) :
           LookupSettle(i, j, o)
    \/ \E i \in 1..Len(ops), ok \in BOOLEAN : UpdateResponse(i, ok)

Spec == Init /\ [][Next]_vars

\* ------------------------------------------------------------------ the codec on its own

CodecTagLists ==
    { <<ToRead>>,
      <<Reading, <<"x">>>>,
      <<Read, <<"0", "7">> \o StarsSuffix>>,
      <<ToRead, <<"a", COMMA, "b">>>> }

\* records as the collection operations leave them: one list tag, then a rating set by
\* the stars or a tag typed by the user
CodecRecords ==
    { [id |-> "v1", isbn |-> isbn, title |-> "t1", tags |-> tags, addedAt |-> ToISOString(1)] :
          isbn \in {Null, IsbnA}, tags \in CodecTagLists }

CodecCollections ==
    {<<>>} \cup {<<r>> : r \in CodecRecords}
           \cup {<<r1, [r2 EXCEPT !.id = "v2"]>> : r1 \in CodecRecords, r2 \in CodecRecords}

CodecInit ==
    /\ books \in CodecCollections
    /\ cache = [present |-> FALSE, data |-> <<>>]
    /\ settings = [gistId |-> <<>>, apiToken |-> <<>>]
    /\ isSyncing = FALSE
    /\ lastSyncTime = 0
    /\ lastPull = 0
    /\ syncStatus = "none"
    /\ remote = [exists |-> FALSE, hasFile |-> FALSE, content |-> <<>>]
    /\ ops = <<>>
    /\ now = 1
    /\ muts = MaxMutations
    /\ unsynced = FALSE
    /\ ev = Quiet

\* booksToTSV() applied to the collection
Encode ==
    /\ ev.name = "other"
    /\ ev' = Event("encoded", "", [NoOp EXCEPT !.body = booksToTSV(books)], <<>>, FALSE, FALSE)
    /\ UNCHANGED <<books, cache, settings, isSyncing, lastSyncTime, lastPull, syncStatus, remote, ops,
                   now, muts, unsynced>>

\* the row parser of tsvToBooks applied to the encoded text
Decode ==
    /\ ev.name = "encoded"
    /\ ev' = Event("decoded", "", [ev.op EXCEPT !.pending = ParseRows(ev.op.body)], <<>>,
                   FALSE, FALSE)
    /\ UNCHANGED <<books, cache, settings, isSyncing, lastSyncTime, lastPull, syncStatus, remote, ops,
                   now, muts, unsynced>>

CodecNext == Encode \/ Decode

SpecCodec == CodecInit /\ [][CodecNext]_vars

\* ------------------------------------------------------------------ properties

\* the record carries the isbn, tags and addedAt of one of the rows
MatchesRow(b, rows) ==
    \E k \in 1..Len(rows) :
        rows[k].isbn = b.isbn /\ rows[k].tags = b.tags /\ rows[k].addedAt = b.addedAt

AllFromRows(bs, rows) == \A k \in 1..Len(bs) : MatchesRow(bs[k], rows)

NoWriteInFlight == \A k \in 1..Len(ops) : ~IsWrite(ops[k])

Updates(o) == Cardinality({k \in 1..Len(o) : o[k].kind = "update"})

\* a record of the collection before the pull is not in the collection after it
SomeRecordGone == \E k \in 1..Len(ev.pre) : \A j \in 1..Len(books) : books[j] # ev.pre[k]

\* C1: in every reachable state at most one sync operation (pull, create or push) is in
\* flight, and isSyncing is set while it is.
C1_SingleFlight == Len(ops) <= 1 /\ (ops # <<>> => isSyncing)

\* a mutation's push trigger arrived while an operation was in flight and was turned away
C1_Witness == Len(ops) = 1 /\ IsMutation(ev.name) /\ ev.dropped

\* C2: while a push is in flight no step issues another update request, whatever
\* mutations are made, and the step that ends the push issues none for the triggers that
\* were dropped: nothing is left in flight.
C2_DroppedNotQueued ==
    [][ /\ (Updates(ops) >= 1 => Updates(ops') <= Updates(ops))
        /\ (ev'.name \in {"pushDone", "pushFailed"} => ops' = <<>>) ]_vars

\* a push has completed during which a mutation was made, and nothing is in flight
C2_Witness == ev.name = "pushDone" /\ ev.op.mutated /\ ops = <<>>

\* C3: after a successful pull of a document holding books.tsv, every record of the
\* collection carries the isbn, tags and addedAt of a row of the fetched document, there
\* are no more records than rows, and a record that was in memory before without a row
\* of its isbn is gone.
C3_PullReplaces ==
    ev.name = "pullDone" =>
        LET rows == ParseRows(ev.op.tsv)
        IN  /\ AllFromRows(books, rows)
            /\ Len(books) <= Len(rows)
            /\ \A k \in 1..Len(ev.pre) :
                   (\A j \in 1..Len(rows) : rows[j].isbn # ev.pre[k].isbn)
                       => \A j \in 1..Len(books) : books[j] # ev.pre[k]

\* a pull has replaced a collection that held a record the document has no row for
C3_Witness == ev.name = "pullDone" /\ books # <<>> /\ SomeRecordGone

\* the rows a sync fetched: none when the document holds no books.tsv
FetchedRows == IF ev.name = "pullDone" THEN ParseRows(ev.op.tsv) ELSE <<>>

\* C4 as stated: after any successful pull during which a mutation was made, the
\* collection and the LocalCache hold nothing but what the fetched document holds.
C4_Original ==
    (ev.name \in {"pullDone", "pullNoFile"} /\ ev.op.mutated) =>
        /\ AllFromRows(books, FetchedRows)
        /\ cache.present => AllFromRows(cache.data, FetchedRows)

\* C4, amended: a mutation made while a pull is in flight issues no RemoteStore request,
\* and after a successful pull of a document holding books.tsv every record of the
\* collection and of the LocalCache carries the isbn, tags and addedAt of a row of the
\* fetched document.
C4_MutationDuringPullLost ==
    /\ (IsMutation(ev.name) /\ (\E k \in 1..Len(ops) : IsPull(ops[k])) => NoWriteInFlight)
    /\ (ev.name = "pullDone" /\ ev.op.mutated) =>
           /\ AllFromRows(books, ParseRows(ev.op.tsv))
           /\ cache = Saved(books)
           /\ NoWriteInFlight

\* a pull during which a mutation was made has ended, and a record is gone
C4_Witness == ev.name = "pullDone" /\ ev.op.mutated /\ SomeRecordGone

\* a sync has ended that was started after a push trigger was dropped: a mutation's push
\* was turned away by the guard, no request has carried the collection since, and no
\* mutation was made while this sync was in flight
AfterDroppedPush == ev.stale /\ ~ev.op.mutated

\* C5 as stated: when a sync started after a push trigger was dropped completes
\* successfully, the RemoteDocument holds the collection the mutation left.
C5_Original ==
    (ev.name \in {"pullDone", "pullNoFile"} /\ AfterDroppedPush) =>
        /\ remote.hasFile
        /\ remote.content = booksToTSV(IF ev.name = "pullDone" THEN ev.pre ELSE books)

\* C5, amended: a sync with a configured identifier that completes successfully after a
\* push trigger was dropped writes nothing: the RemoteDocument is still the document it
\* fetched, no write is in flight, and with books.tsv present the collection holds only
\* the document's rows, so the mutation is discarded, not uploaded.
C5_SyncPullsOnly ==
    /\ (ev.name = "pullDone" /\ AfterDroppedPush) =>
           /\ remote.hasFile
           /\ remote.content = ev.op.tsv
           /\ AllFromRows(books, ParseRows(remote.content))
           /\ NoWriteInFlight
    /\ (ev.name = "pullNoFile" /\ AfterDroppedPush) => (~remote.hasFile /\ NoWriteInFlight)

\* such a sync has ended, the record the dropped mutation left is gone, and the
\* RemoteDocument does not hold it
C5_Witness ==
    /\ ev.name = "pullDone"
    /\ AfterDroppedPush
    /\ SomeRecordGone
    /\ remote.content # booksToTSV(ev.pre)

\* C6: decoding the encoded collection gives, for every record with an isbn, a row with
\* its isbn, its tags as a set and its addedAt, and no row for a record without isbn.
C6_RoundTrip ==
    ev.name = "decoded" =>
        LET rows == ev.op.pending
        IN  /\ \A k \in 1..Len(books) :
                   Truthy(books[k].isbn) =>
                       \E j \in 1..Len(rows) :
                           /\ rows[j].isbn = books[k].isbn
                           /\ Range(rows[j].tags) = Range(books[k].tags)
                           /\ rows[j].addedAt = books[k].addedAt
            /\ Len(rows) = Cardinality({k \in 1..Len(books) : Truthy(books[k].isbn)})

RowOrders(n) == {f \in [1..n -> 1..n] : \A a, b \in 1..n : f[a] = f[b] => a = b}

\* C7: a pull that found the collection empty and whose lookups all returned a volume
\* yields one record per well-formed row, with the row's isbn, tags (as a set) and
\* addedAt, and with id and display metadata of a catalogue volume of that isbn.
C7_PullIntoEmpty ==
    (ev.name = "pullDone" /\ ev.op.startEmpty /\ ~ev.op.failed) =>
        LET rows == ParseRows(ev.op.tsv)
        IN  /\ Len(books) = Len(rows)
            /\ \E f \in RowOrders(Len(rows)) :
                   \A k \in 1..Len(books) :
                       /\ books[k].isbn = rows[f[k]].isbn
                       /\ Range(books[k].tags) = Range(rows[f[k]].tags)
                       /\ books[k].addedAt = rows[f[k]].addedAt
                       /\ \E v \in Volumes :
                              v.isbn = books[k].isbn /\ v.id = books[k].id
                                  /\ v.title = books[k].title

\* such a pull has ended with a record for each of two rows
C7_Witness ==
    ev.name = "pullDone" /\ ev.op.startEmpty /\ ~ev.op.failed /\ Len(books) = 2

\* the data lines of a wire text
BodyLines(text) == Tail(Split(text, NL))

RowsHaveIsbn(text) ==
    \A k \in 1..Len(BodyLines(text)) : Truthy(Split(BodyLines(text)[k], TAB)[1])

\* C8: a record added by addBook is in the collection and the LocalCache whether or not
\* it has an isbn, and no wire text sent by a create or update, nor the RemoteDocument,
\* holds a row without isbn.
C8_NoIsbnStaysLocal ==
    /\ ev.name = "addBook" =>
           /\ \E k \in 1..Len(books) : books[k].id = ev.arg
           /\ cache = Saved(books)
    /\ \A k \in 1..Len(ops) : IsWrite(ops[k]) => RowsHaveIsbn(ops[k].body)
    /\ remote.hasFile => RowsHaveIsbn(remote.content)

\* a record without isbn has been added and the push its addition started is in flight
C8_Witness ==
    /\ ev.name = "addBook"
    /\ ~ev.dropped
    /\ \E k \in 1..Len(books) : books[k].id = ev.arg /\ ~Truthy(books[k].isbn)
    /\ \E k \in 1..Len(ops) : ops[k].kind = "update"

\* C9: no two records of the collection share an id.
C9_UniqueIds ==
    \A i, j \in 1..Len(books) : i # j => books[i].id # books[j].id

CountId(bs, id) == Cardinality({k \in 1..Len(bs) : bs[k].id = id})

\* addBook called with an id the collection holds changes nothing and sends nothing
AddBookDuplicateIsNoOp ==
    [][ (ev'.name \in {"addBook", "addBookDuplicate"} /\ CountId(books, ev'.arg) >= 1) =>
            /\ books' = books
            /\ cache' = cache
            /\ ops' = ops
            /\ isSyncing' = isSyncing
            /\ remote' = remote ]_vars

\* C10: addBook called with an id the collection holds leaves the collection, the
\* LocalCache and the operations in flight as they were, and the collection then holds
\* exactly one record of that id.
C10_AddBookIdempotent ==
    [][ (ev'.name \in {"addBook", "addBookDuplicate"} /\ CountId(books, ev'.arg) >= 1) =>
            /\ books' = books
            /\ cache' = cache
            /\ ops' = ops
            /\ isSyncing' = isSyncing
            /\ CountId(books', ev'.arg) = 1 ]_vars

\* ------------------------------------------------------------------ the tags of one record

\* most operations on the record in one behaviour
MaxTagMutations == 4

TagVolumes == {v \in Volumes : v.id = "v1"}

TagIds == {v.id : v \in TagVolumes}

\* what the user types into the tag input: any text, the reserved tags included
TagInputs == {Reading, <<"0", "9">> \o StarsSuffix, <<"x">>}

\* the ratings updateBookRating is called with (0 stands for null)
TagRatings == {0, 1, 7, 10, 11}

\* no sync is configured: the operations act on the collection and the LocalCache alone
TagsInit ==
    /\ books = <<>>
    /\ cache = [present |-> FALSE, data |-> <<>>]
    /\ settings = [gistId |-> <<>>, apiToken |-> <<>>]
    /\ isSyncing = FALSE
    /\ lastSyncTime = 0
    /\ lastPull = 0
    /\ syncStatus = "none"
    /\ remote = [exists |-> FALSE, hasFile |-> FALSE, content |-> <<>>]
    /\ ops = <<>>
    /\ now = 1
    /\ muts = MaxTagMutations
    /\ unsynced = FALSE
    /\ ev = Quiet

TagsNext ==
    \/ \E vol \in TagVolumes, listTag \in ListTags : AddBook(vol, listTag)
    \/ \E id \in TagIds : RemoveBook(id)
    \/ \E id \in TagIds, listTag \in ListTags : ChangeStatus(id, listTag)
    \/ \E id \in TagIds, rating \in TagRatings : UpdateRating(id, rating)
    \/ \E id \in TagIds, tag \in TagInputs : AddTag(id, tag)
    \/ \E id \in TagIds, tag \in TagInputs : RemoveTag(id, tag)

SpecTags == TagsInit /\ [][TagsNext]_vars

MembershipTags(tags) == SelectSeq(tags, IsListTag)

RatingTags(tags) == SelectSeq(tags, IsRatingTag)

\* the tags of the record the last operation was called on, after it and before it
TagsNow == books[FindById(books, ev.arg)].tags

TagsBefore == ev.pre[1].tags

\* C11: every record of the collection carries at most one membership tag.
C11_OneMembershipTag ==
    \A k \in 1..Len(books) : Len(MembershipTags(books[k].tags)) <= 1

\* C12: every record of the collection carries at most one rating tag.
C12_OneRatingTag ==
    \A k \in 1..Len(books) : Len(RatingTags(books[k].tags)) <= 1

\* the tags that are not membership tags
OtherTags(tags) == LET Other(t) == t \notin ListTags IN SelectSeq(tags, Other)

\* the two-digit zero-padded numeral of r
TwoDigits(r) == <<Digits[(r \div 10) + 1], Digits[(r % 10) + 1]>>

\* C13: after changeStatus(id, newTag) on a record of the collection the record's
\* membership tags are newTag and nothing else, and its other tags are as they were.
C13_ChangeStatusOneTag ==
    ev.name = "changeStatus" =>
        /\ MembershipTags(TagsNow) = <<ev.val>>
        /\ OtherTags(TagsNow) = OtherTags(TagsBefore)

\* changeStatus has acted on a record that carried two membership tags
C13_Witness == ev.name = "changeStatus" /\ Len(MembershipTags(TagsBefore)) = 2

\* C14: after setRating(id, null) on a record of the collection the record has no
\* rating tag, its rating reads back as null and its other tags are as they were.
C14_ClearRating ==
    (ev.name = "updateRating" /\ ev.val = Dec(0)) =>
        /\ RatingTags(TagsNow) = <<>>
        /\ getRatingFromTags(TagsNow) = 0
        /\ TagsNow = SelectSeq(TagsBefore, NotRatingTag)

\* setRating(id, null) has acted on a record that carried two rating tags
C14_Witness ==
    ev.name = "updateRating" /\ ev.val = Dec(0) /\ Len(RatingTags(TagsBefore)) = 2

\* C15: after setRating(id, r) with r in 1..10 the record's rating tags are the two-digit
\* encoding of r followed by _stars and nothing else, and getRatingFromTags returns r;
\* with r outside 1..10 the record has no rating tag.
C15_SetRating ==
    ev.name = "updateRating" =>
        \E r \in TagRatings \cup Ratings :
            /\ ev.val = Dec(r)
            /\ IF r \in 1..10
               THEN /\ RatingTags(TagsNow) = <<TwoDigits(r) \o StarsSuffix>>
                    /\ getRatingFromTags(TagsNow) = r
               ELSE /\ RatingTags(TagsNow) = <<>>
                    /\ getRatingFromTags(TagsNow) = 0

\* a rating of one digit has replaced another rating on the record
C15_Witness ==
    /\ ev.name = "updateRating"
    /\ ev.val = Dec(1)
    /\ getRatingFromTags(TagsBefore) = 7
    /\ getRatingFromTags(TagsNow) = 1

\* the request the step has issued, if it has issued one
Issued(o1, o2) == Len(o2) > Len(o1)

\* C16 as stated: a mutation's push made with a credential and no remote identifier
\* configured sends a create request.
C16_Original ==
    (IsMutation(ev.name) /\ Truthy(settings.apiToken) /\ ~Truthy(settings.gistId)) =>
        \E k \in 1..Len(ops) : ops[k].kind = "create"

\* C16, amended: with a credential and no remote identifier configured a mutation's push
\* sends nothing; the create request is sent by a manual sync, carries the encoded
\* collection, and its answer makes the RemoteDocument that text and stores the returned
\* identifier; every later push is an update of that identifier, whose answer replaces
\* the document's text.
C16_SyncCreates ==
    [][ /\ (IsMutation(ev'.name) /\ ~Truthy(Trim(settings.gistId))) =>
               (~Issued(ops, ops') /\ remote' = remote)
        /\ (Issued(ops, ops') /\ ops'[Len(ops')].kind = "create") =>
               /\ ~IsMutation(ev'.name)
               /\ ops'[Len(ops')].manual
               /\ Truthy(Trim(settings.apiToken)) /\ ~Truthy(Trim(settings.gistId))
               /\ ops'[Len(ops')].body = booksToTSV(books)
        /\ ev'.name = "createDone" =>
               /\ ~remote.exists
               /\ remote' = Document(ev'.op.body)
               /\ settings'.gistId = RemoteGistId
        /\ (IsMutation(ev'.name) /\ Issued(ops, ops')) =>
               /\ ops'[Len(ops')].kind = "update"
               /\ ops'[Len(ops')].gistId = Trim(settings.gistId)
        /\ ev'.name = "pushDone" =>
               (remote.exists /\ remote' = Document(ev'.op.body)) ]_vars

\* a manual sync has created the document with the encoded collection, a book in it
C16_Witness ==
    /\ ev.name = "createDone"
    /\ books # <<>>
    /\ remote.content = booksToTSV(books)
    /\ settings.gistId = RemoteGistId

\* C17: the step in which a push fails changes neither the collection nor the LocalCache
\* nor the status shown to the user nor the RemoteDocument, and clears the guard; and
\* every mutation ends with the collection it left in the LocalCache, its push, if it
\* sent one, still unanswered.
C17_PushFailureSwallowed ==
    [][ /\ ev'.name = "pushFailed" =>
               /\ books' = books
               /\ cache' = cache
               /\ syncStatus' = syncStatus
               /\ remote' = remote
               /\ ~isSyncing'
        /\ IsMutation(ev'.name) =>
               /\ cache' = Saved(books')
               /\ Issued(ops, ops') => (isSyncing' /\ remote' = remote) ]_vars

\* a push has failed: the collection is in the LocalCache, not in the RemoteDocument, and
\* no error is shown
C17_Witness ==
    /\ ev.name = "pushFailed"
    /\ books # <<>>
    /\ cache = Saved(books)
    /\ remote.content # booksToTSV(books)
    /\ syncStatus # "error"

\* C18: the step in which a pull fails sets the error status when the pull was started
\* manually and leaves the status alone when it was started by startup or window focus.
C18_BackgroundPullSilent ==
    [][ ev'.name = "fetchFailed" =>
            IF ev'.op.manual THEN syncStatus' = "error" ELSE syncStatus' = syncStatus ]_vars

\* C19: every mutation leaves the collection it produced in the LocalCache, the update
\* request it sends carries the encoding of that collection, the text of a request in
\* flight does not change, and the answer makes the RemoteDocument that text.
C19_CacheThenPush ==
    [][ /\ IsMutation(ev'.name) => cache' = Saved(books')
        /\ (IsMutation(ev'.name) /\ Issued(ops, ops')) =>
               /\ ops'[Len(ops')].kind = "update"
               /\ ops'[Len(ops')].body = booksToTSV(books')
               /\ ops'[Len(ops')].body = booksToTSV(cache'.data)
        /\ (Updates(ops) = 1 /\ Updates(ops') = 1) => ops'[1].body = ops[1].body
        /\ ev'.name = "pushDone" =>
               (ev'.op = ops[1] /\ remote'.content = ops[1].body) ]_vars

\* a push has been answered after a later mutation: the RemoteDocument holds the text of
\* the mutation that sent it, not of the collection as it is now
C19_Witness ==
    /\ ev.name = "pushDone"
    /\ ev.op.mutated
    /\ remote.content = ev.op.body
    /\ remote.content # booksToTSV(books)

\* C20: a pull in which lookups returned no item or failed ends successfully, with one
\* record for each row but those, each carrying its row's isbn, tags and addedAt, saved to
\* the LocalCache; a lookup never makes the sync fail.
C20_LookupFailureIsolated ==
    /\ (ev.name = "pullDone" /\ ev.op.lost > 0) =>
           LET rows == ParseRows(ev.op.tsv)
           IN  /\ Len(books) = Len(rows) - ev.op.lost
               /\ AllFromRows(books, rows)
               /\ cache = Saved(books)
               /\ lastSyncTime = now
               /\ ~isSyncing
               /\ ev.op.manual => syncStatus = "success"
    /\ ev.name = "fetchFailed" => (ev.op.kind = "fetch" /\ ev.op.lost = 0)

\* a pull of two rows has ended with one lookup failed and the other row kept
C20_Witness ==
    /\ ev.name = "pullDone"
    /\ ev.op.lost = 1
    /\ Len(ParseRows(ev.op.tsv)) = 2
    /\ Len(books) = 1

\* C21: a pull ends only with no lookup pending, every row then being a record or a
\* lookup that returned nothing; a lookup that settles while others are pending changes
\* neither the collection nor the LocalCache, whichever lookup it is; and no pull stays
\* in flight with all its lookups settled.
C21_PullAfterAllLookups ==
    [][ /\ ev'.name = "pullDone" =>
               /\ ev'.op.pending = <<>>
               /\ Len(ev'.op.acc) + ev'.op.lost = Len(ParseRows(ev'.op.tsv))
               /\ books' = ev'.op.acc
        /\ (/\ ops # <<>> /\ ops[1].kind = "lookups"
            /\ ops' # <<>> /\ ops'[1].kind = "lookups"
            /\ ops'[1].pending # ops[1].pending) =>
               /\ books' = books
               /\ cache' = cache
               /\ Len(ops'[1].pending) = Len(ops[1].pending) - 1
        /\ \A k \in 1..Len(ops') : ops'[k].kind = "lookups" => ops'[k].pending # <<>> ]_vars

\* a pull of two rows has ended after both lookups settled without a volume
C21_Witness ==
    /\ ev.name = "pullDone"
    /\ Len(ParseRows(ev.op.tsv)) = 2
    /\ ev.op.lost = 2
    /\ ev.op.pending = <<>>
    /\ books = <<>>

\* C22: when the fetch is answered, a row whose isbn a record of the collection has is
\* not looked up, and the record built for it is such a record with only tags and
\* addedAt taken from the row.
C22_CacheHit ==
    [][ (/\ ops # <<>> /\ ops[1].kind = "fetch"
         /\ (ev'.name = "pullDone" \/ (ops' # <<>> /\ ops'[1].kind = "lookups"))) =>
            LET op == IF ev'.name = "pullDone" THEN ev'.op ELSE ops'[1]
                rows == ParseRows(op.tsv)
                hits == {k \in 1..Len(rows) : HasIsbnOf(books, rows[k].isbn)}
            IN  /\ \A k \in hits :
                       /\ \A j \in 1..Len(op.pending) : op.pending[j].isbn # rows[k].isbn
                       /\ \E j \in 1..Len(op.acc), i \in 1..Len(books) :
                              /\ books[i].isbn = rows[k].isbn
                              /\ op.acc[j] = [books[i] EXCEPT !.tags = rows[k].tags,
                                                              !.addedAt = rows[k].addedAt]
                /\ Len(op.acc) = Cardinality(hits)
                /\ Len(op.pending) = Len(rows) - Cardinality(hits) ]_vars

\* a pull has kept the id of a record of the collection and overwritten its tags
C22_Witness ==
    /\ ev.name = "pullDone"
    /\ ev.op.lost = 0
    /\ ev.pre # <<>> /\ books # <<>>
    /\ books[1].id = ev.pre[1].id
    /\ books[1].title = ev.pre[1].title
    /\ books[1].tags # ev.pre[1].tags

\* C24 as stated: the collection is changed only by a mutation or a pull.
C24_Original ==
    [][ books' # books => (IsMutation(ev'.name) \/ ev'.name = "pullDone") ]_vars

\* C24, amended: the collection is changed only by a mutation, replaced only by a pull
\* and emptied only by a confirmed clearLocalCache; the answer to a push or a create, a
\* failed or file-less fetch and a settings save leave it as it is.
C24_OnlyWriters ==
    [][ /\ books' # books =>
               \/ IsMutation(ev'.name)
               \/ ev'.name = "pullDone"
               \/ (ev'.name = "clearCache" /\ books' = <<>>)
        /\ ev'.name \in {"pushDone", "pushFailed", "createDone", "createFailed",
                         "fetchFailed", "pullNoFile"} => books' = books
        /\ settings' # settings => books' = books ]_vars

\* clearLocalCache has emptied a collection that held a record
C24_Witness == ev.name = "clearCache" /\ ev.pre # <<>> /\ books = <<>>

\* the RemoteStore requests in flight
Requests(o) == Cardinality({k \in 1..Len(o) : o[k].kind \in {"fetch", "create", "update"}})

\* C26: the step in which a pull, create or push fails ends the one request that was in
\* flight and leaves none; no answer, failed or not, sends a request; a request is sent
\* only by a mutation or by a sync trigger.
C26_NoRetry ==
    [][ /\ ev'.name \in {"fetchFailed", "createFailed", "pushFailed"} =>
               /\ ops = <<ev'.op>>
               /\ ops' = <<>>
               /\ ~isSyncing'
               /\ remote' = remote
        /\ ev'.name \in {"pushDone", "createDone", "pullDone", "pullNoFile"} =>
               Requests(ops') = 0
        /\ Requests(ops') > Requests(ops) =>
               \/ IsMutation(ev'.name)
               \/ (ev' = Quiet /\ books' = books /\ remote' = remote) ]_vars

\* a pull has failed and nothing is in flight
C26_Witness ==
    ev.name = "fetchFailed" /\ ops = <<>> /\ ~isSyncing /\ syncStatus = "error"

\* every row has a record carrying its isbn, tags and addedAt
AllRowsRestored(bs, rows) ==
    \A k \in 1..Len(rows) :
        \E j \in 1..Len(bs) :
            bs[j].isbn = rows[k].isbn /\ bs[j].tags = rows[k].tags
                /\ bs[j].addedAt = rows[k].addedAt

IdsInit ==
    /\ books = <<SeedBook>>
    /\ cache = Saved(<<SeedBook>>)
    /\ settings = [gistId |-> RemoteGistId, apiToken |-> <<"k">>]
    /\ isSyncing = FALSE
    /\ lastSyncTime = 1
    /\ lastPull = 1
    /\ syncStatus = "success"
    /\ remote = Document(booksToTSV(<<SeedBook>>))
    /\ ops = <<>>
    /\ now = 1
    /\ muts = MaxTagMutations
    /\ unsynced = FALSE
    /\ ev = Quiet

\* the operations are called with any id, in the collection or not
IdsNext ==
    \/ \E vol \in Volumes, listTag \in AddTags : AddBook(vol, listTag)
    \/ \E id \in Ids : RemoveBook(id)
    \/ \E id \in Ids, listTag \in StatusTags : ChangeStatus(id, listTag)
    \/ \E id \in Ids, rating \in Ratings : UpdateRating(id, rating)
    \/ \E id \in Ids, tag \in FreeTags : AddTag(id, tag)
    \/ \E id \in Ids, tag \in FreeTags : RemoveTag(id, tag)
    \/ \E i \in 1..Len(ops), ok \in BOOLEAN : UpdateResponse(i, ok)

SpecIds == IdsInit /\ [][IdsNext]_vars

\* C30: changeStatus and setRating called with an id the collection does not hold leave
\* the collection, the LocalCache, the operations in flight and the RemoteDocument as
\* they were; they change a record and push only for an id the collection holds.
C30_MissingIdNoOp ==
    [][ /\ ev'.name \in {"changeStatusMissing", "updateRatingMissing"} =>
               /\ ~HasId(books, ev'.arg)
               /\ books' = books
               /\ cache' = cache
               /\ ops' = ops
               /\ isSyncing' = isSyncing
               /\ remote' = remote
        /\ ev'.name \in {"changeStatus", "updateRating"} => HasId(books, ev'.arg) ]_vars

\* changeStatus has been called with an id that is not in a collection that holds a
\* record, with sync configured and no operation in flight that would drop a push
C30_Witness ==
    /\ ev.name = "changeStatusMissing"
    /\ books # <<>>
    /\ ~HasId(books, ev.arg)
    /\ Truthy(settings.apiToken) /\ Truthy(settings.gistId)
    /\ ~isSyncing

\* ------------------------------------------------------------------ the staleness threshold

\* the clock stops here, in minutes
MaxNow == 8

\* a minute passes
Tick ==
    /\ now < MaxNow
    /\ now' = now + 1
    /\ ev' = Quiet
    /\ UNCHANGED <<books, cache, settings, isSyncing, lastSyncTime, lastPull, syncStatus, remote,
                   ops, muts, unsynced>>

\* the sync triggers and the answers to them, with time passing
FocusNext ==
    \/ Tick
    \/ Focus
    \/ ManualSync
    \/ \E g \in GistIdInputs, t \in TokenInputs : SaveSettings(g, t)
    \/ \E lands \in BOOLEAN : Startup(lands)
    \/ \E i \in 1..Len(ops), ok \in BOOLEAN : CreateResponse(i, ok)
    \/ \E i \in 1..Len(ops), ok \in BOOLEAN : FetchResponse(i, ok)
    \/ \E i \in 1..Len(ops), j \in 1..MaxBooks, o \in LookupOutcomes(IsbnA) :
           LookupSettle(i, j, o)

SpecFocus == Init /\ [][FocusNext]_vars

\* a background pull is started by a handler that leaves state.lastSyncTime alone
FocusStartsPull ==
    /\ Issued(ops, ops')
    /\ ops'[Len(ops')].kind = "fetch"
    /\ ~ops'[Len(ops')].manual
    /\ lastSyncTime' = lastSyncTime

\* C23: the focus handler starts a pull only if this page has finished no pull yet or
\* finished its last one more than five minutes ago; a failed pull leaves the last-sync
\* time as it was, and a pull that succeeds sets it to the time it succeeds.
C23_FocusThreshold ==
    [][ /\ FocusStartsPull => (lastPull = 0 \/ now - lastPull > FiveMinutes)
        /\ ev'.name = "fetchFailed" => (lastSyncTime' = lastSyncTime /\ lastPull' = lastPull)
        /\ ev'.name \in {"pullDone", "pullNoFile"} =>
               (lastSyncTime' = now /\ lastPull' = now) ]_vars

\* a pull started in the background is in flight more than five minutes after the last
\* pull this page finished
C23_Witness ==
    /\ ops # <<>>
    /\ ops[1].kind = "fetch"
    /\ ~ops[1].manual
    /\ lastPull # 0
    /\ now - lastPull > FiveMinutes

\* ------------------------------------------------------------------ fetchGist failures

\* the HTTP statuses for which response.ok is false
ErrorStatuses == (400..451) \cup (500..511)

\* fetchGist lines 984-996: the message of the error thrown for a status
fetchGistError(status) ==
    IF status = 404 THEN <<"Gist not found. Check your Gist ID in Settings.">>
    ELSE IF status = 401 THEN <<"Invalid GitHub token. Please check your token in Settings.">>
    ELSE IF status = 403 THEN <<"GitHub token lacks permission or rate limit exceeded.">>
    ELSE <<"Failed to fetch gist (">> \o Dec(status) \o <<").">>

\* the fetch request is answered with an error status: fetchGist throws, and the catch
\* and finally blocks of syncWithGitHub run
FetchGistFails(i, status) ==
    /\ ops[i].kind = "fetch"
    /\ syncStatus' = "error"
    /\ isSyncing' = Finally(FALSE)
    /\ ops' = RemoveAt(ops, i)
    /\ ev' = [Event("fetchGistFailed", Dec(status), ops[i], <<>>, FALSE, unsynced)
                 EXCEPT !.val = fetchGistError(status)]
    /\ UNCHANGED <<books, cache, settings, lastSyncTime, lastPull, remote, now, muts, unsynced>>

FetchNext ==
    \/ \E g \in GistIdInputs, t \in TokenInputs : SaveSettings(g, t)
    \/ ManualSync
    \/ Focus
    \/ \E i \in 1..Len(ops), status \in ErrorStatuses : FetchGistFails(i, status)

SpecFetch == Init /\ [][FetchNext]_vars

\* the message names no cause, only the status
IsGeneric(msg) == msg[1] = "Failed to fetch gist ("

\* C25: a fetch answered 404 is reported as not found, one answered 401 as unauthorized,
\* and one answered 429, the status of a throttled request, by a message of its own:
\* not the one of another status, and not the generic one.
C25_FailureClasses ==
    ev.name = "fetchGistFailed" =>
        /\ ev.arg = Dec(404) => ev.val = <<"Gist not found. Check your Gist ID in Settings.">>
        /\ ev.arg = Dec(401) =>
               ev.val = <<"Invalid GitHub token. Please check your token in Settings.">>
        /\ ev.arg = Dec(429) =>
               /\ ~IsGeneric(ev.val)
               /\ \A other \in ErrorStatuses \ {429} : ev.val # fetchGistError(other)

\* ------------------------------------------------------------------ the decoder on its own

\* most data lines of a wire text
MaxLines == 2

\* data lines as an editor of the gist can leave them: complete, without tags, without
\* addedAt, without both, cut after the isbn, empty
DecodeLines ==
    { IsbnA \o <<TAB>> \o ToRead \o <<TAB, "1">>,
      IsbnA \o <<TAB, TAB, "1">>,
      IsbnA \o <<TAB>> \o ToRead,
      IsbnA \o <<TAB>>,
      IsbnA \o <<TAB, TAB>>,
      IsbnA,
      <<>> }

\* the wire texts: the header and up to MaxLines data lines
DecodeTexts ==
    { Join(<<Header>> \o lines, NL) :
          lines \in UNION {[1..n -> DecodeLines] : n \in 1..MaxLines} }

DecodeInit ==
    /\ books = <<>>
    /\ cache = [present |-> FALSE, data |-> <<>>]
    /\ settings = [gistId |-> <<>>, apiToken |-> <<>>]
    /\ isSyncing = FALSE
    /\ lastSyncTime = 0
    /\ lastPull = 0
    /\ syncStatus = "none"
    /\ remote \in {Document(text) : text \in DecodeTexts}
    /\ ops = <<>>
    /\ now = 1
    /\ muts = MaxMutations
    /\ unsynced = FALSE
    /\ ev = Quiet

\* the row parser of tsvToBooks applied to the text of the RemoteDocument
DecodeRows ==
    /\ ev.name = "other"
    /\ ev' = Event("rowsDecoded", "",
                   [NoOp EXCEPT !.tsv = remote.content, !.pending = ParseRows(remote.content)],
                   <<>>, FALSE, FALSE)
    /\ UNCHANGED <<books, cache, settings, isSyncing, lastSyncTime, lastPull, syncStatus, remote,
                   ops, now, muts, unsynced>>

DecodeNext == DecodeRows

SpecDecode == DecodeInit /\ [][DecodeNext]_vars

\* the lines of a text after its first that have two tab-separated fields or more
DataLines(text) ==
    LET TwoFields(line) == Len(Split(line, TAB)) >= 2
    IN  SelectSeq(Tail(Split(text, NL)), TwoFields)

\* C27: the rows decoded from a text are, in order, its lines after the header that
\* have two tab-separated fields or more: each row has the first field of its line as
\* isbn, and no tag if the second field is empty.
C27_DecodeKeepsRows ==
    ev.name = "rowsDecoded" =>
        LET kept == DataLines(ev.op.tsv)
            rows == ev.op.pending
        IN  /\ Len(rows) = Len(kept)
            /\ \A k \in 1..Len(rows) :
                   /\ rows[k].isbn = Split(kept[k], TAB)[1]
                   /\ Split(kept[k], TAB)[2] = <<>> => rows[k].tags = <<>>

\* the text of one record, column by column
RowText(b) == Str(b.isbn) \o <<TAB>> \o Join(b.tags, COMMA) \o <<TAB>> \o Str(b.addedAt)

Others(bs, id) ==
    LET keep == {k \in 1..Len(bs) : bs[k].id # id}
        Nth(j) == CHOOSE k \in keep : Cardinality({i \in keep : i <= k}) = j
    IN  [j \in 1..Cardinality(keep) |-> bs[Nth(j)]]

\* C31: after removeBook(id) neither the collection nor the LocalCache holds a record of
\* that id, and both hold the other records as they were and in the order they were in.
C31_RemoveDeletes ==
    [][ ev'.name = "removeBook" =>
            /\ ~HasId(books', ev'.arg)
            /\ cache'.present
            /\ ~HasId(cache'.data, ev'.arg)
            /\ books' = Others(books, ev'.arg)
            /\ cache'.data = Others(books, ev'.arg) ]_vars

\* a record has been removed from a collection of two, and the other is still there
C31_Witness ==
    /\ ev.name = "removeBook"
    /\ ev.pre # <<>>
    /\ Len(books) = 1
    /\ books[1].id # ev.arg
    /\ cache = Saved(books)

\* the record is as it was but for the fields named
SameBut(after, before, fields) ==
    \A f \in {"id", "isbn", "title", "tags", "addedAt"} \ fields : after[f] = before[f]

\* C39: changeStatus changes, of the record it finds, only the membership tags and
\* addedAt: the tags that are not membership tags, the other fields and the other records
\* are as they were; setRating, addTag and removeTag change only the tags of the record
\* they find, addedAt and the other records being as they were.
C39_FrameOfTagOps ==
    [][ ev'.name \in {"changeStatus", "updateRating", "addTag", "removeTag"} =>
            LET k == FindById(books, ev'.arg)
            IN  /\ HasId(books, ev'.arg)
                /\ Len(books') = Len(books)
                /\ \A j \in 1..Len(books) : j # k => books'[j] = books[j]
                /\ IF ev'.name = "changeStatus"
                   THEN /\ SameBut(books'[k], books[k], {"tags", "addedAt"})
                        /\ OtherTags(books'[k].tags) = OtherTags(books[k].tags)
                   ELSE SameBut(books'[k], books[k], {"tags"}) ]_vars

\* changeStatus has moved a rated record of a collection of two to another list and set
\* its addedAt
C39_Witness ==
    /\ ev.name = "changeStatus"
    /\ Len(books) = 2
    /\ ev.pre # <<>>
    /\ RatingTags(ev.pre[1].tags) # <<>>
    /\ RatingTags(books[FindById(books, ev.arg)].tags) = RatingTags(ev.pre[1].tags)
    /\ MembershipTags(books[FindById(books, ev.arg)].tags) # MembershipTags(ev.pre[1].tags)
    /\ books[FindById(books, ev.arg)].addedAt # ev.pre[1].addedAt

\* the steps in which a pull, a create or a push finishes
Finished(name) ==
    name \in {"pullDone", "pullNoFile", "fetchFailed", "createDone", "createFailed",
              "pushDone", "pushFailed"}

\* C32: the step in which a pull, a create or a push finishes, by success or failure,
\* leaves isSyncing false and no operation in flight; isSyncing is true only while an
\* operation is in flight, so the guard turns a trigger away only then.
C32_GuardReleased ==
    [][ /\ Finished(ev'.name) => (~isSyncing' /\ ops' = <<>>)
        /\ isSyncing' => ops' # <<>>
        /\ ev'.dropped => (isSyncing /\ ops # <<>>) ]_vars

\* a create has failed and the guard is free
C32_Witness ==
    ev.name = "createFailed" /\ ~isSyncing /\ ops = <<>>

\* C34 as stated: when a push succeeds the RemoteDocument is the text the push was
\* triggered with, and the encoding of the collection as it is now if no mutation was
\* made while the push was in flight.
C34_Original ==
    [][ ev'.name = "pushDone" =>
            /\ remote' = Document(ev'.op.body)
            /\ ~ev'.op.mutated => remote' = Document(booksToTSV(books')) ]_vars

\* C34, amended: when a push succeeds the RemoteDocument is the text the push was
\* triggered with; if no mutation was made while the push was in flight it is the
\* encoding of the collection as it is now, unless clearLocalCache has emptied the
\* collection and the LocalCache meanwhile.
C34_PushLands ==
    [][ ev'.name = "pushDone" =>
            /\ remote' = Document(ev'.op.body)
            /\ ~ev'.op.mutated =>
                   \/ remote' = Document(booksToTSV(books'))
                   \/ (books' = <<>> /\ ~cache'.present) ]_vars

\* a push of a collection that holds a record has succeeded with no mutation meanwhile
C34_Witness ==
    /\ ev.name = "pushDone"
    /\ ~ev.op.mutated
    /\ books # <<>>
    /\ remote = Document(booksToTSV(books))

\* C35: the step that ends a pull finds isSyncing true, sends no request and leaves
\* the RemoteDocument as it is; with sync configured, the push its save triggers is
\* turned away by the guard.
C35_PullWritesNothing ==
    [][ ev'.name = "pullDone" =>
            /\ isSyncing
            /\ Requests(ops') = 0
            /\ remote' = remote
            /\ (Truthy(Trim(settings.apiToken)) /\ Truthy(Trim(settings.gistId))) =>
                   ev'.dropped ]_vars

\* a pull has replaced the collection and saved it, and its push was turned away
C35_Witness ==
    /\ ev.name = "pullDone"
    /\ ev.dropped
    /\ ops = <<>>
    /\ ~isSyncing
    /\ books # <<>>
    /\ cache = Saved(books)

\* C36: between handlers the LocalCache entry, when there is one, holds the collection,
\* and the collection is empty when there is none.
C36_CacheMirrors ==
    /\ cache.present => cache.data = books
    /\ ~cache.present => books = <<>>

\* a pull has failed while the collection holds two records, both in the LocalCache
C36_Witness ==
    /\ ev.name = "fetchFailed"
    /\ Len(books) = 2
    /\ cache.present
    /\ cache.data = books

\* C37: the step in which the fetch of a pull fails leaves the collection, the
\* LocalCache, the settings and the last-sync time as they were.
C37_FailedFetchFrame ==
    [][ ev'.name = "fetchFailed" =>
            /\ books' = books
            /\ cache' = cache
            /\ settings' = settings
            /\ lastSyncTime' = lastSyncTime ]_vars

\* the fetch of a pull has failed on a page that holds a record and has not synced yet
C37_Witness ==
    /\ ev.name = "fetchFailed"
    /\ books # <<>>
    /\ lastSyncTime = 0
    /\ syncStatus = "error"

\* C38: the step in which a pull finds no books.tsv leaves the collection and the
\* LocalCache as they were, sets the last-sync time to the clock and reports no error:
\* a manual sync shows success, a background one leaves the status line alone.
C38_NoFileIsSuccess ==
    [][ ev'.name = "pullNoFile" =>
            /\ books' = books
            /\ cache' = cache
            /\ lastSyncTime' = now
            /\ syncStatus' = IF ev'.op.manual THEN "success" ELSE syncStatus ]_vars

\* a manual pull of a document without books.tsv has ended on a page that holds a record
C38_Witness ==
    /\ ev.name = "pullNoFile"
    /\ ev.op.manual
    /\ books # <<>>
    /\ lastSyncTime = now
    /\ syncStatus = "success"

\* ------------------------------------------------------------------ a user who removes nothing

\* the program used without removeBook and without clearLocalCache: books are added and
\* moved between lists, and the collection is synced
KeepNext ==
    \/ \E vol \in Volumes, listTag \in AddTags : AddBook(vol, listTag)
    \/ \E id \in OnScreen, listTag \in StatusTags : ChangeStatus(id, listTag)
    \/ ManualSync
    \/ \E g \in GistIdInputs, t \in TokenInputs : SaveSettings(g, t)
    \/ \E lands \in BOOLEAN : Startup(lands)
    \/ \E i \in 1..Len(ops), ok \in BOOLEAN : CreateResponse(i, ok)
    \/ \E i \in 1..Len(ops), ok \in BOOLEAN : FetchResponse(i, ok)
    \/ \E i \in 1..Len(ops), j \in 1..MaxBooks, o \in LookupOutcomes(IsbnA) :
           LookupSettle(i, j, o)
    \/ \E i \in 1..Len(ops), ok \in BOOLEAN : UpdateResponse(i, ok)

SpecKeep == Init /\ [][KeepNext]_vars

\* the number of rows the RemoteDocument holds
RemoteRows(doc) == IF doc.hasFile THEN Len(ParseRows(doc.content)) ELSE 0

\* C33: while the user removes no record, no step leaves the RemoteDocument with fewer
\* rows than it had.
C33_RowsOnlyRemovedByUser ==
    [][ RemoteRows(remote') >= RemoteRows(remote) ]_vars

====
